---- MODULE Spec2Model ----
(***************************************************************************)
(* Model of dynamodb-util: the DynamoDB wrapper class (single-table        *)
(* helper over the SDK's document client).  The class builds the input of  *)
(* one command per call (PutCommand, GetCommand, DeleteCommand,            *)
(* QueryCommand), awaits documentClient.send and post-filters what comes   *)
(* back with filterDeletedItems.                                           *)
(*                                                                         *)
(* Two environments answer the commands:                                   *)
(*   Spec       the document client resolves with any output (the shape    *)
(*              the tests drive through aws-sdk-client-mock) or rejects;   *)
(*   StoreSpec  the document client is backed by a modelled table that     *)
(*              evaluates the command it receives.                         *)
(***************************************************************************)
EXTENDS Integers, Sequences, FiniteSets, TLC

VARIABLES
  client,      \* the DynamoDB object: its private fields
  built,       \* how the client was built and what it was built as (never read
               \* by the code; kept for the properties)
  store,       \* the records of the table behind the document client
  lastWrite,   \* per primary key, the last putItem or deleteItem that completed
               \* against the table (kept for the properties)
  calls        \* the calls of the client's methods in progress

vars == <<client, built, store, lastWrite, calls>>

(***************************************************************************)
(* Bounds of the model.                                                    *)
(***************************************************************************)
MaxItems == 2      \* longest Items list a mocked QueryCommand output carries
MaxLimit == 1      \* largest options.limit a caller passes

(***************************************************************************)
(* JavaScript values.  A value whose type varies at run time carries its   *)
(* kind, so that === between a boolean and a number is a comparison the    *)
(* model can make (and that is false).  Strings the code or the store      *)
(* looks into (sort keys, prefixes, key-condition expressions) are         *)
(* sequences of characters; opaque strings (table, partition keys,         *)
(* attribute names) are TLA+ strings.                                      *)
(***************************************************************************)
Undefined == [kind |-> "undefined"]
Bool(b) == [kind |-> "boolean", value |-> b]
Num(n) == [kind |-> "number", value |-> n]
Str(s) == [kind |-> "string", value |-> s]
Obj(o) == [kind |-> "object", value |-> o]
Arr(a) == [kind |-> "array", value |-> a]

EmptyObject == <<>>

\* ToBoolean, as `if (v)` applies it
Truthy(v) ==
  CASE v.kind = "undefined" -> FALSE
    [] v.kind = "boolean" -> v.value
    [] v.kind = "number" -> v.value # 0
    [] v.kind = "string" -> v.value # <<>>
    [] OTHER -> TRUE

\* obj.name of a plain object: undefined when the property is not there
Prop(o, name) == IF name \in DOMAIN o THEN o[name] ELSE Undefined

\* v?.name
OptProp(v, name) == IF v.kind = "object" THEN Prop(v.value, name) ELSE Undefined

(***************************************************************************)
(* Inputs the callers and the environment draw from.                       *)
(***************************************************************************)
PartitionKeys == {"p1", "p2"}
SecondaryKeys == {"s1", "s2"}
SortKeys == {<<"x">>, <<"x", "y">>}
SortKeyPrefixes == {Undefined, Str(<<>>), Str(<<"x">>)}

IsDeletedValues ==
  {Bool(TRUE), Bool(FALSE), Num(1), Str(<<"t", "r", "u", "e">>)}

\* the optional attributes of a RecordItem
GsiChoices(psk) == {EmptyObject, [spk |-> "s1", ssk |-> psk]}
IsDeletedChoices(values) == {EmptyObject} \cup {[isDeleted |-> v] : v \in values}

ItemsOver(pks, sks, dels) ==
  UNION {{[ppk |-> p, psk |-> s] @@ g @@ d :
             g \in GsiChoices(s), d \in IsDeletedChoices(dels)} :
         p \in pks, s \in sks}

Items == ItemsOver(PartitionKeys, SortKeys, IsDeletedValues)
ListItems ==
  {i \in ItemsOver({"p1"}, {<<"x">>}, {Bool(TRUE), Bool(FALSE), Num(1)}) : "spk" \in DOMAIN i}

SeqsUpTo(S, n) == UNION {[1..k -> S] : k \in 0..n}

LimitChoices ==
  {EmptyObject, [limit |-> Undefined]} \cup {[limit |-> Num(n)] : n \in 0..MaxLimit}
PkOnlyChoices ==
  {EmptyObject} \cup {[pkOnly |-> v] : v \in {Undefined, Bool(TRUE), Bool(FALSE)}}
OptionsArgs == {Undefined} \cup {Obj(l @@ p) : l \in LimitChoices, p \in PkOnlyChoices}

Configs == {[table |-> "t1", region |-> "us-east-1"], [table |-> "t2"]}

\* process.env: DYNAMODB_TABLE and DYNAMODB_REGION, each set or not
Environments ==
  {t @@ r : t \in {EmptyObject, [DYNAMODB_TABLE |-> "t3"]},
            r \in {EmptyObject, [DYNAMODB_REGION |-> "us-west-2"]}}

(***************************************************************************)
(* The class.                                                              *)
(***************************************************************************)
\* DynamoDBDocumentClient.from(this)
DocumentClientFrom(config) == [instanceOf |-> "DynamoDBDocumentClient"]

\* a constructor that keeps the region as it is given
Constructor_RegionAsGiven(config) ==
  [table |-> config.table,
   region |-> IF "region" \in DOMAIN config THEN config.region ELSE "undefined",
   documentClient |-> DocumentClientFrom(config)]

\* constructor(config); a region property that is undefined reads like one that
\* is not there
Constructor(config) ==
  [table |-> config.table,
   region |-> IF "region" \in DOMAIN config THEN config.region ELSE "",
   documentClient |-> DocumentClientFrom(config)]

\* fromEnvironment(), with process.env as env
fromEnvironment(env) ==
  LET region == IF "DYNAMODB_REGION" \in DOMAIN env
                THEN [region |-> env.DYNAMODB_REGION] ELSE EmptyObject
      table == IF "DYNAMODB_TABLE" \in DOMAIN env THEN env.DYNAMODB_TABLE ELSE ""
  IN Constructor([table |-> table] @@ region)

\* the getters
getTable == client.table
getRegion == client.region
getDocumentClient == client.documentClient

\* the string literals of the key-condition expressions
KeyCondPpk == <<"p","p","k"," ","="," ",":","p","p","k">>
KeyCondPsk ==
  <<" ","a","n","d"," ","b","e","g","i","n","s","_","w","i","t","h","(",
    "p","s","k",","," ",":","p","s","k",")">>
KeyCondSpk == <<"s","p","k"," ","="," ",":","s","p","k">>
KeyCondSsk ==
  <<" ","a","n","d"," ","b","e","g","i","n","s","_","w","i","t","h","(",
    "s","s","k",","," ",":","s","s","k",")">>

\* i.isDeleted
IsDeletedOf(item) == Prop(item, "isDeleted")

\* the filter written as `!i.isDeleted`
NotDeleted_Falsy(i) == ~Truthy(IsDeletedOf(i))

\* (i) => i.isDeleted !== true
NotDeleted(i) == IsDeletedOf(i) # Bool(TRUE)

\* the single-record branch written as `if (items?.isDeleted)`
filterDeletedItems_Truthy(items) ==
  IF items.kind # "array"
  THEN IF Truthy(OptProp(items, "isDeleted")) THEN Undefined ELSE items
  ELSE Arr(SelectSeq(items.value, NotDeleted))

\* filterDeletedItems(items): items is an array, an object or undefined
filterDeletedItems(items) ==
  IF items.kind # "array"
  THEN IF OptProp(items, "isDeleted") = Bool(TRUE) THEN Undefined ELSE items
  ELSE Arr(SelectSeq(items.value, NotDeleted))

\* a PutCommand whose Item is rebuilt from the key attributes alone
putItemCommand_KeysOnly(table, item) ==
  [name |-> "PutCommand",
   input |-> [TableName |-> table,
              Item |-> [a \in DOMAIN item \cap {"ppk", "psk", "spk", "ssk"} |-> item[a]]]]

\* new PutCommand({ TableName, Item: { ...item } })
putItemCommand(table, item) ==
  [name |-> "PutCommand",
   input |-> [TableName |-> table, Item |-> [a \in DOMAIN item |-> item[a]]]]

\* the caller's item object once putItem has run
putItemCallerItem(item) == item

\* a GetCommand whose TableName is a fixed table
getItemCommand_FixedTable(table, primaryKey, sortKey) ==
  [name |-> "GetCommand",
   input |-> [TableName |-> "t1", Key |-> [ppk |-> primaryKey, psk |-> sortKey]]]

\* new GetCommand({ TableName, Key: { ppk, psk } })
getItemCommand(table, primaryKey, sortKey) ==
  [name |-> "GetCommand",
   input |-> [TableName |-> table, Key |-> [ppk |-> primaryKey, psk |-> sortKey]]]

\* a DeleteCommand whose Key lacks the sort key
deleteItemCommand_NoSortKey(table, primaryKey, sortKey) ==
  [name |-> "DeleteCommand",
   input |-> [TableName |-> table, Key |-> [ppk |-> primaryKey]]]

\* new DeleteCommand({ TableName, Key: { ppk, psk } })
deleteItemCommand(table, primaryKey, sortKey) ==
  [name |-> "DeleteCommand",
   input |-> [TableName |-> table, Key |-> [ppk |-> primaryKey, psk |-> sortKey]]]

\* the test without `&& sortKeyBeginsWith !== ''`
HasSortKeyPrefix_NoEmptyCheck(sortKeyBeginsWith) == sortKeyBeginsWith # Undefined

\* sortKeyBeginsWith !== undefined && sortKeyBeginsWith !== ''
HasSortKeyPrefix(sortKeyBeginsWith) ==
  sortKeyBeginsWith # Undefined /\ sortKeyBeginsWith # Str(<<>>)

\* params of queryPrimaryIndex without the limit
queryPrimaryIndexParams_NoLimit(table, options) ==
  LET base == [TableName |-> table]
      proj == IF Truthy(OptProp(options, "pkOnly"))
              THEN [ProjectionExpression |-> "ppk"] ELSE EmptyObject
  IN proj @@ base

\* the projection asked for whenever pkOnly is given, true or false
queryPrimaryIndexParams_PkOnlyGiven(table, options) ==
  LET base == [TableName |-> table]
      proj == IF OptProp(options, "pkOnly") # Undefined
              THEN [ProjectionExpression |-> "ppk"] ELSE EmptyObject
      lim == IF OptProp(options, "limit") # Undefined
             THEN [Limit |-> OptProp(options, "limit").value] ELSE EmptyObject
  IN lim @@ proj @@ base

\* params of queryPrimaryIndex: TableName, then ProjectionExpression and Limit
\* as the options ask
queryPrimaryIndexParams(table, options) ==
  LET base == [TableName |-> table]
      proj == IF Truthy(OptProp(options, "pkOnly"))
              THEN [ProjectionExpression |-> "ppk"] ELSE EmptyObject
      lim == IF OptProp(options, "limit") # Undefined
             THEN [Limit |-> OptProp(options, "limit").value] ELSE EmptyObject
  IN lim @@ proj @@ base

\* the limit tested as `if (options?.limit)`
querySecondaryIndexParams_TruthyLimit(table, options) ==
  LET base == [TableName |-> table]
      proj == IF Truthy(OptProp(options, "pkOnly"))
              THEN [ProjectionExpression |-> "spk"] ELSE EmptyObject
      lim == IF Truthy(OptProp(options, "limit"))
             THEN [Limit |-> OptProp(options, "limit").value] ELSE EmptyObject
  IN lim @@ proj @@ base

\* params of querySecondaryIndex
querySecondaryIndexParams(table, options) ==
  LET base == [TableName |-> table]
      proj == IF Truthy(OptProp(options, "pkOnly"))
              THEN [ProjectionExpression |-> "spk"] ELSE EmptyObject
      lim == IF OptProp(options, "limit") # Undefined
             THEN [Limit |-> OptProp(options, "limit").value] ELSE EmptyObject
  IN lim @@ proj @@ base

\* queryPrimaryIndex that sets ':psk' for every sortKeyBeginsWith that is not
\* undefined, and the begins_with clause only for a non-empty one
queryPrimaryIndexCommand_ValueWithoutClause(table, primaryKey, sortKeyBeginsWith, options) ==
  LET has == HasSortKeyPrefix(sortKeyBeginsWith)
      KeyConditionExpression == KeyCondPpk \o (IF has THEN KeyCondPsk ELSE <<>>)
      ExpressionAttributeValues ==
        IF sortKeyBeginsWith # Undefined
        THEN (":psk" :> sortKeyBeginsWith.value) @@ (":ppk" :> primaryKey)
        ELSE (":ppk" :> primaryKey)
  IN [name |-> "QueryCommand",
      input |-> queryPrimaryIndexParams(table, options)
                @@ [KeyConditionExpression |-> KeyConditionExpression,
                    ExpressionAttributeValues |-> ExpressionAttributeValues]]

\* queryPrimaryIndex that leaves the sort-key prefix out of the command
queryPrimaryIndexCommand_IgnoresPrefix(table, primaryKey, sortKeyBeginsWith, options) ==
  [name |-> "QueryCommand",
   input |-> queryPrimaryIndexParams(table, options)
             @@ [KeyConditionExpression |-> KeyCondPpk,
                 ExpressionAttributeValues |-> (":ppk" :> primaryKey)]]

\* the QueryCommand of queryPrimaryIndex
queryPrimaryIndexCommand(table, primaryKey, sortKeyBeginsWith, options) ==
  LET has == HasSortKeyPrefix(sortKeyBeginsWith)
      KeyConditionExpression == KeyCondPpk \o (IF has THEN KeyCondPsk ELSE <<>>)
      ExpressionAttributeValues ==
        IF has THEN (":psk" :> sortKeyBeginsWith.value) @@ (":ppk" :> primaryKey)
        ELSE (":ppk" :> primaryKey)
  IN [name |-> "QueryCommand",
      input |-> queryPrimaryIndexParams(table, options)
                @@ [KeyConditionExpression |-> KeyConditionExpression,
                    ExpressionAttributeValues |-> ExpressionAttributeValues]]

\* querySecondaryIndex with the key condition of the primary index left in
querySecondaryIndexCommand_PrimaryCondition(table, secondaryKey, sortKeyBeginsWith, options) ==
  LET has == HasSortKeyPrefix(sortKeyBeginsWith)
      KeyConditionExpression == KeyCondSpk \o (IF has THEN KeyCondPsk ELSE <<>>)
      ExpressionAttributeValues ==
        IF has THEN (":psk" :> sortKeyBeginsWith.value) @@ (":spk" :> secondaryKey)
        ELSE (":spk" :> secondaryKey)
  IN [name |-> "QueryCommand",
      input |-> querySecondaryIndexParams(table, options)
                @@ [KeyConditionExpression |-> KeyConditionExpression,
                    ExpressionAttributeValues |-> ExpressionAttributeValues,
                    IndexName |-> "gsi"]]

\* the QueryCommand of querySecondaryIndex
querySecondaryIndexCommand(table, secondaryKey, sortKeyBeginsWith, options) ==
  LET has == HasSortKeyPrefix(sortKeyBeginsWith)
      KeyConditionExpression == KeyCondSpk \o (IF has THEN KeyCondSsk ELSE <<>>)
      ExpressionAttributeValues ==
        IF has THEN (":ssk" :> sortKeyBeginsWith.value) @@ (":spk" :> secondaryKey)
        ELSE (":spk" :> secondaryKey)
  IN [name |-> "QueryCommand",
      input |-> querySecondaryIndexParams(table, options)
                @@ [KeyConditionExpression |-> KeyConditionExpression,
                    ExpressionAttributeValues |-> ExpressionAttributeValues,
                    IndexName |-> "gsi"]]

\* what each method resolves to, given the output send resolved with
putItemResult(output) == Undefined

\* getItem returning the Item without the soft-delete check
getItemResult_Unfiltered(output) ==
  IF "Item" \in DOMAIN output THEN Obj(output.Item) ELSE Undefined

getItemResult(output) ==
  LET item == IF "Item" \in DOMAIN output THEN Obj(output.Item) ELSE Undefined
  IN IF item = Undefined THEN Undefined ELSE filterDeletedItems(item)

deleteItemResult(output) == Undefined

queryPrimaryIndexResult(output) ==
  LET items == IF "Items" \in DOMAIN output THEN Arr(output.Items) ELSE Undefined
  IN filterDeletedItems(items)

querySecondaryIndexResult(output) ==
  LET items == IF "Items" \in DOMAIN output THEN Arr(output.Items) ELSE Undefined
  IN filterDeletedItems(items)

(***************************************************************************)
(* Calls.  calls[c] is the frame of one call of a method of the client:    *)
(*   pc       "idle" | "await" (send is pending) | "done" | "failed"       *)
(*   op, args the method and the arguments it was called with              *)
(*   caller   the caller's objects passed by reference, as they are now    *)
(*   sent     the commands the document client received from this call     *)
(*   output   what send resolved with                                      *)
(*   result   what the method resolved with                                *)
(*   error    what the method rejected with                                *)
(*   thrown   what send rejected with (kept for the properties)            *)
(*   stored   the records of the table the command read or removed, in the *)
(*            output's order (kept for the properties; the code never      *)
(*            sees it)                                                     *)
(***************************************************************************)
Pending == [kind |-> "pending"]
NoError == "none"

Idle ==
  [pc |-> "idle", op |-> "none", args |-> EmptyObject, caller |-> EmptyObject,
   sent |-> <<>>, output |-> EmptyObject, result |-> Pending, error |-> NoError,
   thrown |-> NoError, stored |-> <<>>]

\* a method that also resets this.table
Send_ResetsTable(c, op, args, caller, command) ==
  /\ calls[c].pc = "idle"
  /\ calls' = [calls EXCEPT ![c] =
                 [Idle EXCEPT !.pc = "await", !.op = op, !.args = args,
                              !.caller = caller, !.sent = <<command>>]]
  /\ client' = [client EXCEPT !.table = ""]
  /\ UNCHANGED <<built, store, lastWrite>>

Send(c, op, args, caller, command) ==
  /\ calls[c].pc = "idle"
  /\ calls' = [calls EXCEPT ![c] =
                 [Idle EXCEPT !.pc = "await", !.op = op, !.args = args,
                              !.caller = caller, !.sent = <<command>>]]
  /\ UNCHANGED <<client, built, store, lastWrite>>

putItem(c, item) ==
  Send(c, "putItem", [item |-> item], [item |-> putItemCallerItem(item)],
       putItemCommand(client.table, item))

getItem(c, primaryKey, sortKey) ==
  Send(c, "getItem", [primaryKey |-> primaryKey, sortKey |-> sortKey], EmptyObject,
       getItemCommand(client.table, primaryKey, sortKey))

deleteItem(c, primaryKey, sortKey) ==
  Send(c, "deleteItem", [primaryKey |-> primaryKey, sortKey |-> sortKey], EmptyObject,
       deleteItemCommand(client.table, primaryKey, sortKey))

queryPrimaryIndex(c, primaryKey, sortKeyBeginsWith, options) ==
  Send(c, "queryPrimaryIndex",
       [primaryKey |-> primaryKey, sortKeyBeginsWith |-> sortKeyBeginsWith,
        options |-> options],
       EmptyObject,
       queryPrimaryIndexCommand(client.table, primaryKey, sortKeyBeginsWith, options))

querySecondaryIndex(c, secondaryKey, sortKeyBeginsWith, options) ==
  Send(c, "querySecondaryIndex",
       [secondaryKey |-> secondaryKey, sortKeyBeginsWith |-> sortKeyBeginsWith,
        options |-> options],
       EmptyObject,
       querySecondaryIndexCommand(client.table, secondaryKey, sortKeyBeginsWith, options))

\* the code after `await this.documentClient.send(command)`
ResultOf(op, output) ==
  CASE op = "putItem" -> putItemResult(output)
    [] op = "getItem" -> getItemResult(output)
    [] op = "deleteItem" -> deleteItemResult(output)
    [] op = "queryPrimaryIndex" -> queryPrimaryIndexResult(output)
    [] op = "querySecondaryIndex" -> querySecondaryIndexResult(output)

\* a method that keeps the response in a field of the client and computes
\* its result from the field: it sees the response of a call that resolved
\* before it and has not returned
Resolved_SharedResponse(frame, output) ==
  LET others == {d \in DOMAIN calls : calls[d].pc = "done" /\ calls[d].op = frame.op}
      seen == IF others = {} THEN output ELSE calls[CHOOSE d \in others : TRUE].output
  IN [frame EXCEPT !.pc = "done", !.output = output, !.result = ResultOf(frame.op, seen)]

Resolved(frame, output) ==
  [frame EXCEPT !.pc = "done", !.output = output, !.result = ResultOf(frame.op, output)]

\* a method that catches the rejection and wraps it in an error of its own
Rejected_Wrapped(frame, err) == [frame EXCEPT !.pc = "failed", !.error = "GetItemCommandError"]

\* a rejected send: the await throws and the method rejects with the same error
Rejected(frame, err) == [frame EXCEPT !.pc = "failed", !.error = err]

\* the caller takes the outcome; the frame is gone
Return(c) ==
  /\ calls[c].pc \in {"done", "failed"}
  /\ calls' = [calls EXCEPT ![c] = Idle]
  /\ UNCHANGED <<client, built, store, lastWrite>>

(***************************************************************************)
(* A document client that answers anything (the mocked client of the       *)
(* tests).                                                                 *)
(***************************************************************************)
MockOutputs(op) ==
  CASE op \in {"putItem", "deleteItem"} -> {EmptyObject}
    [] op = "getItem" -> {EmptyObject} \cup {[Item |-> i] : i \in Items}
    [] OTHER -> {EmptyObject} \cup {[Items |-> l] : l \in SeqsUpTo(ListItems, MaxItems)}

MockErrors == {"MockError", "ProvisionedThroughputExceededException"}

MockResolves(c) ==
  /\ calls[c].pc = "await"
  /\ \E output \in MockOutputs(calls[c].op) :
       calls' = [calls EXCEPT ![c] = Resolved(calls[c], output)]
  /\ UNCHANGED <<client, built, store, lastWrite>>

MockRejects(c) ==
  /\ calls[c].pc = "await"
  /\ \E err \in MockErrors :
       calls' = [calls EXCEPT ![c] = [Rejected(calls[c], err) EXCEPT !.thrown = err]]
  /\ UNCHANGED <<client, built, store, lastWrite>>

EmptyStore == {}

\* no putItem or deleteItem has completed for any key
TableKeys == {[ppk |-> p, psk |-> s] : p \in PartitionKeys, s \in SortKeys}
NoWrites == [k \in TableKeys |-> [kind |-> "none"]]

\* new DynamoDB(config) or DynamoDB.fromEnvironment()
Built ==
  \/ \E config \in Configs :
       /\ client = Constructor(config)
       /\ built = [by |-> "constructor", given |-> config, as |-> client]
  \/ \E env \in Environments :
       /\ client = fromEnvironment(env)
       /\ built = [by |-> "fromEnvironment", given |-> env, as |-> client]

Init ==
  /\ Built
  /\ store = EmptyStore
  /\ lastWrite = NoWrites
  /\ calls = [c \in {1} |-> Idle]

CallPutItem == \E c \in DOMAIN calls, item \in Items : putItem(c, item)
CallGetItem ==
  \E c \in DOMAIN calls, pk \in PartitionKeys, sk \in SortKeys : getItem(c, pk, sk)
CallDeleteItem ==
  \E c \in DOMAIN calls, pk \in PartitionKeys, sk \in SortKeys : deleteItem(c, pk, sk)
CallQueryPrimaryIndex ==
  \E c \in DOMAIN calls, pk \in PartitionKeys, pre \in SortKeyPrefixes,
     o \in OptionsArgs : queryPrimaryIndex(c, pk, pre, o)
CallQuerySecondaryIndex ==
  \E c \in DOMAIN calls, sk \in SecondaryKeys, pre \in SortKeyPrefixes,
     o \in OptionsArgs : querySecondaryIndex(c, sk, pre, o)
SendResolves == \E c \in DOMAIN calls : MockResolves(c)
SendRejects == \E c \in DOMAIN calls : MockRejects(c)
CallReturns == \E c \in DOMAIN calls : Return(c)

Next ==
  \/ CallPutItem
  \/ CallGetItem
  \/ CallDeleteItem
  \/ CallQueryPrimaryIndex
  \/ CallQuerySecondaryIndex
  \/ SendResolves
  \/ SendRejects
  \/ CallReturns

Spec == Init /\ [][Next]_vars

(***************************************************************************)
(* A document client backed by a table: primary key (ppk, psk), global     *)
(* secondary index gsi with key (spk, ssk).  store is the set of records   *)
(* in the table; the table evaluates the command it is sent.               *)
(***************************************************************************)
KeyOf(item) == [ppk |-> item.ppk, psk |-> item.psk]

StorePut(s, item) == {r \in s : KeyOf(r) # KeyOf(item)} \cup {item}
StoreDelete(s, key) == {r \in s : KeyOf(r) # key}
StoreLookup(s, key) == {r \in s : KeyOf(r) = key}

\* lexicographic order of strings over the characters the sort keys use
CharRank(ch) == CASE ch = "x" -> 1 [] ch = "y" -> 2 [] OTHER -> 3

RECURSIVE StrLeq(_, _)
StrLeq(a, b) ==
  IF a = <<>> THEN TRUE
  ELSE IF b = <<>> THEN FALSE
  ELSE IF Head(a) = Head(b) THEN StrLeq(Tail(a), Tail(b))
  ELSE CharRank(Head(a)) < CharRank(Head(b))

BeginsWith(str, prefix) ==
  Len(prefix) <= Len(str) /\ SubSeq(str, 1, Len(prefix)) = prefix

\* the attribute and placeholder names a key condition may use
NameOf(chars) ==
  CASE chars = <<"p","p","k">> -> "ppk"
    [] chars = <<"p","s","k">> -> "psk"
    [] chars = <<"s","p","k">> -> "spk"
    [] chars = <<"s","s","k">> -> "ssk"
    [] chars = <<":","p","p","k">> -> ":ppk"
    [] chars = <<":","p","s","k">> -> ":psk"
    [] chars = <<":","s","p","k">> -> ":spk"
    [] chars = <<":","s","s","k">> -> ":ssk"
    [] OTHER -> "?"

\* a key condition: `<attr> = <:value>`, optionally followed by
\* ` and begins_with(<attr>, <:value>)`
ParseKeyCondition(expr) ==
  LET n == Len(expr)
      partition == n >= 10 /\ SubSeq(expr, 4, 6) = <<" ", "=", " ">>
      sort == /\ n = 37
              /\ SubSeq(expr, 11, 27)
                   = <<" ","a","n","d"," ","b","e","g","i","n","s","_","w","i","t","h","(">>
              /\ SubSeq(expr, 31, 32) = <<",", " ">>
              /\ expr[37] = ")"
  IN IF ~partition \/ ~(n = 10 \/ sort) THEN [ok |-> FALSE]
     ELSE [ok |-> TRUE,
           pkAttr |-> NameOf(SubSeq(expr, 1, 3)),
           pkValue |-> NameOf(SubSeq(expr, 7, 10)),
           hasSort |-> sort,
           skAttr |-> IF sort THEN NameOf(SubSeq(expr, 28, 30)) ELSE "?",
           skValue |-> IF sort THEN NameOf(SubSeq(expr, 33, 36)) ELSE "?"]

\* the key schema of the table or of one of its indexes
KeySchema(input) ==
  IF "IndexName" \notin DOMAIN input THEN [ok |-> TRUE, pk |-> "ppk", sk |-> "psk"]
  ELSE IF input.IndexName = "gsi" THEN [ok |-> TRUE, pk |-> "spk", sk |-> "ssk"]
  ELSE [ok |-> FALSE]

\* a query the table accepts
ValidQuery(input) ==
  LET cond == ParseKeyCondition(input.KeyConditionExpression)
      schema == KeySchema(input)
      values == DOMAIN input.ExpressionAttributeValues
  IN /\ schema.ok
     /\ cond.ok
     /\ cond.pkAttr = schema.pk
     /\ cond.hasSort => cond.skAttr = schema.sk
     /\ values = {cond.pkValue} \cup (IF cond.hasSort THEN {cond.skValue} ELSE {})
     /\ "Limit" \in DOMAIN input => input.Limit >= 1
     /\ "ProjectionExpression" \in DOMAIN input
          => input.ProjectionExpression \in {"ppk", "psk", "spk", "ssk"}

\* the records of the index that satisfy the key condition
Matching(s, input) ==
  LET cond == ParseKeyCondition(input.KeyConditionExpression)
      schema == KeySchema(input)
      values == input.ExpressionAttributeValues
  IN {r \in s :
        /\ {schema.pk, schema.sk} \subseteq DOMAIN r
        /\ r[schema.pk] = values[cond.pkValue]
        /\ cond.hasSort => BeginsWith(r[schema.sk], values[cond.skValue])}

\* the orders an index may return a set of records in: ascending sort key
IndexOrders(S, sk) ==
  {q \in [1..Cardinality(S) -> S] :
     /\ \A i, j \in DOMAIN q : i # j => q[i] # q[j]
     /\ \A i, j \in DOMAIN q : i < j => StrLeq(q[i][sk], q[j][sk])}

FirstN(q, input) ==
  IF "Limit" \in DOMAIN input /\ input.Limit < Len(q)
  THEN SubSeq(q, 1, input.Limit) ELSE q

Project(r, input) ==
  IF "ProjectionExpression" \in DOMAIN input
  THEN [a \in DOMAIN r \cap {input.ProjectionExpression} |-> r[a]]
  ELSE r

\* what the table does with a command: the outputs it may resolve with (and
\* the table afterwards), or the error it rejects with
StoreOutcomes(s, cmd) ==
  CASE cmd.name = "PutCommand" ->
         {[ok |-> TRUE, output |-> EmptyObject, stored |-> <<>>,
           store |-> StorePut(s, cmd.input.Item)]}
    [] cmd.name = "DeleteCommand" ->
         {[ok |-> TRUE, output |-> EmptyObject, stored |-> q,
           store |-> StoreDelete(s, cmd.input.Key)] :
            q \in IndexOrders(StoreLookup(s, cmd.input.Key), "psk")}
    [] cmd.name = "GetCommand" ->
         IF StoreLookup(s, cmd.input.Key) = {}
         THEN {[ok |-> TRUE, output |-> EmptyObject, stored |-> <<>>, store |-> s]}
         ELSE {[ok |-> TRUE, output |-> [Item |-> r], stored |-> <<r>>, store |-> s] :
                 r \in StoreLookup(s, cmd.input.Key)}
    [] cmd.name = "QueryCommand" ->
         IF ~ValidQuery(cmd.input)
         THEN {[ok |-> FALSE, error |-> "ValidationException"]}
         ELSE {[ok |-> TRUE,
                output |-> [Items |-> [i \in DOMAIN FirstN(q, cmd.input) |->
                                         Project(q[i], cmd.input)]],
                stored |-> FirstN(q, cmd.input),
                store |-> s] :
                 q \in IndexOrders(Matching(s, cmd.input), KeySchema(cmd.input).sk)}

\* the last write per key, once the call of frame has completed
Written(w, frame) ==
  CASE frame.op = "putItem" ->
         [w EXCEPT ![KeyOf(frame.args.item)] = [kind |-> "put", item |-> frame.args.item]]
    [] frame.op = "deleteItem" ->
         [w EXCEPT ![[ppk |-> frame.args.primaryKey, psk |-> frame.args.sortKey]] =
                     [kind |-> "delete"]]
    [] OTHER -> w

StoreResolves(c) ==
  /\ calls[c].pc = "await"
  /\ \E out \in StoreOutcomes(store, calls[c].sent[1]) :
       /\ out.ok
       /\ calls' = [calls EXCEPT ![c] =
                      [Resolved(calls[c], out.output) EXCEPT !.stored = out.stored]]
       /\ store' = out.store
       /\ lastWrite' = Written(lastWrite, calls[c])
  /\ UNCHANGED <<client, built>>

StoreRejects(c) ==
  /\ calls[c].pc = "await"
  /\ \E out \in StoreOutcomes(store, calls[c].sent[1]) :
       /\ ~out.ok
       /\ calls' = [calls EXCEPT ![c] =
                      [Rejected(calls[c], out.error) EXCEPT !.thrown = out.error]]
  /\ UNCHANGED <<client, built, store, lastWrite>>

\* what the callers of the store-backed client pass
StoreItems == ItemsOver(PartitionKeys, SortKeys, {Bool(TRUE)})
StorePrefixes == {Undefined, Str(<<"x", "y">>)}
StoreOptionsArgs ==
  {Undefined} \cup {Obj(l @@ p) : l \in LimitChoices \ {[limit |-> Undefined]},
                                  p \in {EmptyObject, [pkOnly |-> Bool(TRUE)]}}

StorePutItem == \E c \in DOMAIN calls, item \in StoreItems : putItem(c, item)
StoreGetItem ==
  \E c \in DOMAIN calls, pk \in PartitionKeys, sk \in SortKeys : getItem(c, pk, sk)
StoreDeleteItem ==
  \E c \in DOMAIN calls, pk \in PartitionKeys, sk \in SortKeys : deleteItem(c, pk, sk)
StoreQueryPrimaryIndex ==
  \E c \in DOMAIN calls, pk \in PartitionKeys, pre \in StorePrefixes,
     o \in StoreOptionsArgs : queryPrimaryIndex(c, pk, pre, o)
StoreQuerySecondaryIndex ==
  \E c \in DOMAIN calls, sk \in SecondaryKeys, pre \in StorePrefixes,
     o \in StoreOptionsArgs : querySecondaryIndex(c, sk, pre, o)
TableResolves == \E c \in DOMAIN calls : StoreResolves(c)
TableRejects == \E c \in DOMAIN calls : StoreRejects(c)
StoreCallReturns == \E c \in DOMAIN calls : Return(c)

StoreNext ==
  \/ StorePutItem
  \/ StoreGetItem
  \/ StoreDeleteItem
  \/ StoreQueryPrimaryIndex
  \/ StoreQuerySecondaryIndex
  \/ TableResolves
  \/ TableRejects
  \/ StoreCallReturns

StoreInit ==
  /\ client = Constructor([table |-> "t1", region |-> "us-east-1"])
  /\ built = [by |-> "constructor", given |-> [table |-> "t1", region |-> "us-east-1"],
              as |-> client]
  /\ store = EmptyStore
  /\ lastWrite = NoWrites
  /\ calls = [c \in {1} |-> Idle]

StoreSpec == StoreInit /\ [][StoreNext]_vars

(***************************************************************************)
(* Several calls in flight on one client: the methods are async, a caller  *)
(* may start a second one before the first has resolved, and the mocked    *)
(* document client settles the pending sends in any order.                 *)
(***************************************************************************)
ConcCalls == {1, 2}
ConcItems == {i \in ListItems : IsDeletedOf(i) \in {Undefined, Bool(TRUE)} /\ i.ssk = <<"x">>}
ConcSortKeys == {<<"x">>}
ConcPrefixes == {Undefined, Str(<<"x">>)}
ConcOptionsArgs == {Undefined, Obj([pkOnly |-> Bool(TRUE)])}

ConcOutputs(op) ==
  CASE op \in {"putItem", "deleteItem"} -> {EmptyObject}
    [] op = "getItem" -> {EmptyObject} \cup {[Item |-> i] : i \in ConcItems}
    [] OTHER -> {EmptyObject} \cup {[Items |-> l] : l \in SeqsUpTo(ConcItems, MaxItems)}

ConcInit ==
  /\ client = Constructor([table |-> "t1", region |-> "us-east-1"])
  /\ built = [by |-> "constructor", given |-> [table |-> "t1", region |-> "us-east-1"],
              as |-> client]
  /\ store = EmptyStore
  /\ lastWrite = NoWrites
  /\ calls = [c \in ConcCalls |-> Idle]

ConcPutItem == \E c \in DOMAIN calls, item \in ConcItems : putItem(c, item)
ConcGetItem ==
  \E c \in DOMAIN calls, pk \in PartitionKeys, sk \in ConcSortKeys : getItem(c, pk, sk)
ConcDeleteItem ==
  \E c \in DOMAIN calls, pk \in PartitionKeys, sk \in ConcSortKeys : deleteItem(c, pk, sk)
ConcQueryPrimaryIndex ==
  \E c \in DOMAIN calls, pk \in PartitionKeys, pre \in ConcPrefixes,
     o \in ConcOptionsArgs : queryPrimaryIndex(c, pk, pre, o)
ConcQuerySecondaryIndex ==
  \E c \in DOMAIN calls, sk \in SecondaryKeys, pre \in ConcPrefixes,
     o \in ConcOptionsArgs : querySecondaryIndex(c, sk, pre, o)
ConcResolves ==
  \E c \in DOMAIN calls :
    /\ calls[c].pc = "await"
    /\ \E output \in ConcOutputs(calls[c].op) :
         calls' = [calls EXCEPT ![c] = Resolved(calls[c], output)]
    /\ UNCHANGED <<client, built, store, lastWrite>>
ConcRejects ==
  \E c \in DOMAIN calls :
    /\ calls[c].pc = "await"
    /\ calls' = [calls EXCEPT ![c] =
                   [Rejected(calls[c], "MockError") EXCEPT !.thrown = "MockError"]]
    /\ UNCHANGED <<client, built, store, lastWrite>>
ConcReturns == \E c \in DOMAIN calls : Return(c)

ConcNext ==
  \/ ConcPutItem
  \/ ConcGetItem
  \/ ConcDeleteItem
  \/ ConcQueryPrimaryIndex
  \/ ConcQuerySecondaryIndex
  \/ ConcResolves
  \/ ConcRejects
  \/ ConcReturns

ConcSpec == ConcInit /\ [][ConcNext]_vars

(***************************************************************************)
(* Properties.                                                             *)
(***************************************************************************)
Frames == {calls[c] : c \in DOMAIN calls}
Called(op) == {f \in Frames : f.op = op /\ f.pc \in {"await", "done", "failed"}}
Done(op) == {f \in Frames : f.op = op /\ f.pc = "done"}

\* C1: getItem resolves to undefined whenever the Item of the GetCommand output
\* has isDeleted equal to true, whatever its other attributes are.
C1_GetItemHidesDeleted ==
  \A f \in Done("getItem") :
    ("Item" \in DOMAIN f.output /\ "isDeleted" \in DOMAIN f.output.Item
       /\ f.output.Item.isDeleted = Bool(TRUE))
    => f.result = Undefined

C1_Witness ==
  \E f \in Done("getItem") :
    /\ "Item" \in DOMAIN f.output
    /\ DOMAIN f.output.Item = {"ppk", "psk", "spk", "ssk", "isDeleted"}
    /\ f.output.Item.isDeleted = Bool(TRUE)
    /\ f.result = Undefined

\* the positions of a list whose record does not carry isDeleted: true
KeptPositions(items) ==
  {i \in 1..Len(items) :
     ~("isDeleted" \in DOMAIN items[i] /\ items[i].isDeleted = Bool(TRUE))}

\* the j-th smallest member of a set of positions
NthOf(K, j) == CHOOSE i \in K : Cardinality({k \in K : k <= i}) = j

\* C2: for every Items list of the output, queryPrimaryIndex and
\* querySecondaryIndex resolve to that list without the records whose isDeleted
\* is the boolean true: the other records (isDeleted false, absent, 1, 'true')
\* are kept, unchanged, in their order, and nothing is added.
C2_QueryRemovesExactlyDeleted ==
  \A f \in Done("queryPrimaryIndex") \cup Done("querySecondaryIndex") :
    "Items" \in DOMAIN f.output =>
      LET K == KeptPositions(f.output.Items) IN
        /\ f.result.kind = "array"
        /\ Len(f.result.value) = Cardinality(K)
        /\ \A j \in 1..Cardinality(K) : f.result.value[j] = f.output.Items[NthOf(K, j)]

C2_Witness ==
  \E f \in Done("querySecondaryIndex") :
    /\ "Items" \in DOMAIN f.output
    /\ Len(f.output.Items) = 2
    /\ IsDeletedOf(f.output.Items[1]) = Bool(TRUE)
    /\ IsDeletedOf(f.output.Items[2]) = Num(1)
    /\ f.result = Arr(<<f.output.Items[2]>>)

\* C3: against a table that applies the ProjectionExpression, no record whose
\* stored isDeleted is true appears in the result of queryPrimaryIndex or
\* querySecondaryIndex, whatever the options are (pkOnly: true included).  The
\* j-th record of the result is the j-th kept record of the output, which the
\* table read from the stored record at the same position.
C3_NoDeletedRecordInResult ==
  \A f \in Done("queryPrimaryIndex") \cup Done("querySecondaryIndex") :
    f.result.kind = "array" =>
      LET K == KeptPositions(f.output.Items) IN
        \A j \in 1..Len(f.result.value) :
          IsDeletedOf(f.stored[NthOf(K, j)]) # Bool(TRUE)

\* the same without pkOnly: the records come back whole and the filter sees
\* the flag
C3_HoldsWithoutProjection ==
  \A f \in Done("queryPrimaryIndex") \cup Done("querySecondaryIndex") :
    (f.result.kind = "array" /\ "ProjectionExpression" \notin DOMAIN f.sent[1].input) =>
      LET K == KeptPositions(f.output.Items) IN
        \A j \in 1..Len(f.result.value) :
          IsDeletedOf(f.stored[NthOf(K, j)]) # Bool(TRUE)

\* C4: getItem resolves to undefined when the output has no Item, and to the
\* Item unchanged when it is there and its isDeleted is not true.
C4_GetItemProxies ==
  \A f \in Done("getItem") :
    /\ "Item" \notin DOMAIN f.output => f.result = Undefined
    /\ ("Item" \in DOMAIN f.output
          /\ ~("isDeleted" \in DOMAIN f.output.Item
                 /\ f.output.Item.isDeleted = Bool(TRUE)))
       => (f.result.kind = "object" /\ f.result.value = f.output.Item)

C4_Witness ==
  \E f \in Done("getItem") :
    /\ "Item" \in DOMAIN f.output
    /\ IsDeletedOf(f.output.Item) = Str(<<"t", "r", "u", "e">>)
    /\ f.result = Obj(f.output.Item)

\* C5: putItem sends exactly one PutCommand, whose TableName is the client's
\* table and whose Item has exactly the attributes and values of the item it
\* was given, and the caller's item object is as it was.
C5_PutItemProxies ==
  \A f \in Called("putItem") :
    /\ Len(f.sent) = 1
    /\ f.sent[1].name = "PutCommand"
    /\ DOMAIN f.sent[1].input = {"TableName", "Item"}
    /\ f.sent[1].input.TableName = client.table
    /\ DOMAIN f.sent[1].input.Item = DOMAIN f.args.item
    /\ \A a \in DOMAIN f.args.item : f.sent[1].input.Item[a] = f.args.item[a]
    /\ f.caller.item = f.args.item

C5_Witness ==
  \E f \in Done("putItem") :
    /\ DOMAIN f.args.item = {"ppk", "psk", "spk", "ssk", "isDeleted"}
    /\ f.sent[1].input.Item = f.args.item
    /\ client.table = "t2"

\* C6: getItem and deleteItem each send exactly one command (GetCommand,
\* DeleteCommand) with TableName the client's table and
\* Key {ppk: primaryKey, psk: sortKey}, and no other key attribute.
C6_GetAndDeleteKey ==
  \A f \in Called("getItem") \cup Called("deleteItem") :
    /\ Len(f.sent) = 1
    /\ f.sent[1].name = (IF f.op = "getItem" THEN "GetCommand" ELSE "DeleteCommand")
    /\ DOMAIN f.sent[1].input = {"TableName", "Key"}
    /\ f.sent[1].input.TableName = client.table
    /\ DOMAIN f.sent[1].input.Key = {"ppk", "psk"}
    /\ f.sent[1].input.Key.ppk = f.args.primaryKey
    /\ f.sent[1].input.Key.psk = f.args.sortKey

C6_Witness ==
  \E f \in Called("deleteItem") :
    /\ f.pc = "done"
    /\ f.args = [primaryKey |-> "p2", sortKey |-> <<"x", "y">>]
    /\ f.sent[1].input.Key = [ppk |-> "p2", psk |-> <<"x", "y">>]

\* C7: over the table, when deleteItem(pk, sk) completes the record with key
\* (pk, sk) is physically absent (a getItem(pk, sk) resolves to undefined) and
\* every record with another key is unchanged; when no record has the key,
\* deleteItem completes without error and the table is unchanged.
C7_DeleteRemovesOnlyTheKey ==
  [][\A c \in DOMAIN calls :
       (calls[c].op = "deleteItem" /\ calls[c].pc = "await" /\ calls'[c].pc # "await") =>
         LET key == [ppk |-> calls[c].args.primaryKey, psk |-> calls[c].args.sortKey]
             get == getItemCommand(client.table, key.ppk, key.psk)
         IN /\ calls'[c].pc = "done"
            /\ \A r \in store' : KeyOf(r) # key
            /\ \A out \in StoreOutcomes(store', get) :
                 out.ok /\ getItemResult(out.output) = Undefined
            /\ {r \in store' : KeyOf(r) # key} = {r \in store : KeyOf(r) # key}
            /\ (\A r \in store : KeyOf(r) # key) => store' = store]_vars

C7_Witness ==
  \E f \in Done("deleteItem") :
    LET key == [ppk |-> f.args.primaryKey, psk |-> f.args.sortKey] IN
      /\ Len(f.stored) = 1 /\ KeyOf(f.stored[1]) = key
      /\ StoreLookup(store, key) = {}
      /\ Cardinality(store) = 2

\* 'ppk = :ppk' and 'ppk = :ppk and begins_with(psk, :psk)'
PrimaryPartitionOnly == <<"p","p","k"," ","="," ",":","p","p","k">>
PrimaryWithPrefix ==
  <<"p","p","k"," ","="," ",":","p","p","k"," ","a","n","d"," ",
    "b","e","g","i","n","s","_","w","i","t","h","(","p","s","k",","," ",
    ":","p","s","k",")">>

\* C8: queryPrimaryIndex sends a QueryCommand without IndexName; its
\* KeyConditionExpression is 'ppk = :ppk' with values {':ppk': primaryKey} when
\* sortKeyBeginsWith is undefined or '', and
\* 'ppk = :ppk and begins_with(psk, :psk)' with values
\* {':ppk': primaryKey, ':psk': sortKeyBeginsWith} otherwise.
C8_PrimaryKeyCondition ==
  \A f \in Called("queryPrimaryIndex") :
    LET in == f.sent[1].input
        pre == f.args.sortKeyBeginsWith
    IN /\ Len(f.sent) = 1
       /\ f.sent[1].name = "QueryCommand"
       /\ "IndexName" \notin DOMAIN in
       /\ (pre.kind = "undefined" \/ (pre.kind = "string" /\ Len(pre.value) = 0))
          => /\ in.KeyConditionExpression = PrimaryPartitionOnly
             /\ DOMAIN in.ExpressionAttributeValues = {":ppk"}
             /\ in.ExpressionAttributeValues[":ppk"] = f.args.primaryKey
       /\ (pre.kind = "string" /\ Len(pre.value) > 0)
          => /\ in.KeyConditionExpression = PrimaryWithPrefix
             /\ DOMAIN in.ExpressionAttributeValues = {":ppk", ":psk"}
             /\ in.ExpressionAttributeValues[":ppk"] = f.args.primaryKey
             /\ in.ExpressionAttributeValues[":psk"] = pre.value

C8_Witness ==
  \E f \in Called("queryPrimaryIndex") :
    /\ f.args.sortKeyBeginsWith = Str(<<>>)
    /\ f.sent[1].input.KeyConditionExpression = PrimaryPartitionOnly
    /\ f.args.options = Undefined

\* 'spk = :spk' and 'spk = :spk and begins_with(ssk, :ssk)'
SecondaryPartitionOnly == <<"s","p","k"," ","="," ",":","s","p","k">>
SecondaryWithPrefix ==
  <<"s","p","k"," ","="," ",":","s","p","k"," ","a","n","d"," ",
    "b","e","g","i","n","s","_","w","i","t","h","(","s","s","k",","," ",
    ":","s","s","k",")">>

\* the fields of a QueryCommand input that are about neither the index nor its keys
SharedFields(in) ==
  [a \in DOMAIN in \ {"IndexName", "KeyConditionExpression",
                      "ExpressionAttributeValues", "ProjectionExpression"} |-> in[a]]

\* C9: querySecondaryIndex always sends a QueryCommand with IndexName 'gsi';
\* its KeyConditionExpression is 'spk = :spk' with values {':spk': secondaryKey}
\* when sortKeyBeginsWith is undefined or '', and
\* 'spk = :spk and begins_with(ssk, :ssk)' with values
\* {':spk': secondaryKey, ':ssk': sortKeyBeginsWith} otherwise; the rest of the
\* command and the result are those of queryPrimaryIndex.
C9_SecondaryKeyCondition ==
  \A f \in Called("querySecondaryIndex") :
    LET in == f.sent[1].input
        pre == f.args.sortKeyBeginsWith
        primary == queryPrimaryIndexCommand(client.table, f.args.secondaryKey,
                                            pre, f.args.options).input
    IN /\ Len(f.sent) = 1
       /\ f.sent[1].name = "QueryCommand"
       /\ "IndexName" \in DOMAIN in /\ in.IndexName = "gsi"
       /\ (pre.kind = "undefined" \/ (pre.kind = "string" /\ Len(pre.value) = 0))
          => /\ in.KeyConditionExpression = SecondaryPartitionOnly
             /\ DOMAIN in.ExpressionAttributeValues = {":spk"}
             /\ in.ExpressionAttributeValues[":spk"] = f.args.secondaryKey
       /\ (pre.kind = "string" /\ Len(pre.value) > 0)
          => /\ in.KeyConditionExpression = SecondaryWithPrefix
             /\ DOMAIN in.ExpressionAttributeValues = {":spk", ":ssk"}
             /\ in.ExpressionAttributeValues[":spk"] = f.args.secondaryKey
             /\ in.ExpressionAttributeValues[":ssk"] = pre.value
       /\ SharedFields(in) = SharedFields(primary)
       /\ ("ProjectionExpression" \in DOMAIN in)
            = ("ProjectionExpression" \in DOMAIN primary)
       /\ f.pc = "done" => f.result = queryPrimaryIndexResult(f.output)

C9_Witness ==
  \E f \in Done("querySecondaryIndex") :
    /\ f.args.sortKeyBeginsWith = Str(<<"x">>)
    /\ f.args.options = Obj([limit |-> Num(1)])
    /\ f.sent[1].input.IndexName = "gsi"
    /\ f.sent[1].input.KeyConditionExpression = SecondaryWithPrefix
    /\ f.sent[1].input.Limit = 1
    /\ "Items" \in DOMAIN f.output
    /\ Len(f.output.Items) = 2
    /\ Len(f.result.value) = 1

\* C10: the QueryCommand carries a ProjectionExpression exactly when
\* options.pkOnly is true, and then it is 'ppk' for queryPrimaryIndex and 'spk'
\* for querySecondaryIndex; without options, or with pkOnly false or undefined,
\* none is sent.
C10_ProjectionIffPkOnly ==
  \A f \in Called("queryPrimaryIndex") \cup Called("querySecondaryIndex") :
    LET in == f.sent[1].input
        o == f.args.options
        pkOnlyTrue == /\ o.kind = "object"
                      /\ "pkOnly" \in DOMAIN o.value
                      /\ o.value.pkOnly = Bool(TRUE)
    IN /\ ("ProjectionExpression" \in DOMAIN in) <=> pkOnlyTrue
       /\ pkOnlyTrue =>
            in.ProjectionExpression
              = (IF f.op = "queryPrimaryIndex" THEN "ppk" ELSE "spk")

C10_Witness ==
  \E f \in Called("querySecondaryIndex") :
    /\ f.args.options = Obj([pkOnly |-> Bool(TRUE)])
    /\ f.sent[1].input.ProjectionExpression = "spk"

\* C11: the QueryCommand carries Limit equal to options.limit exactly when
\* options.limit is defined (0 included), for both query methods; without
\* options, or with limit undefined, no Limit is sent.
C11_LimitIffDefined ==
  \A f \in Called("queryPrimaryIndex") \cup Called("querySecondaryIndex") :
    LET in == f.sent[1].input
        o == f.args.options
        given == /\ o.kind = "object"
                 /\ "limit" \in DOMAIN o.value
                 /\ o.value.limit.kind = "number"
    IN /\ ("Limit" \in DOMAIN in) <=> given
       /\ given => in.Limit = o.value.limit.value

C11_Witness ==
  \E f \in Called("querySecondaryIndex") :
    /\ f.args.options = Obj([limit |-> Num(0)])
    /\ "Limit" \in DOMAIN f.sent[1].input
    /\ f.sent[1].input.Limit = 0

\* C12: over the table, queryPrimaryIndex(primaryKey) without a sort-key prefix
\* and without options returns all stored records whose ppk is primaryKey and
\* that are not soft-deleted, and none with another ppk; with a non-empty
\* sortKeyBeginsWith, all such records whose psk starts with that prefix.
C12_PrimaryQueryReturnsThePartition ==
  \A f \in Done("queryPrimaryIndex") :
    f.args.options = Undefined =>
      LET pre == f.args.sortKeyBeginsWith
          wanted == {r \in store :
                       /\ r.ppk = f.args.primaryKey
                       /\ ~("isDeleted" \in DOMAIN r /\ r.isDeleted = Bool(TRUE))
                       /\ (pre.kind = "string" /\ Len(pre.value) > 0)
                            => (/\ Len(pre.value) <= Len(r.psk)
                                /\ \A i \in 1..Len(pre.value) : r.psk[i] = pre.value[i])}
      IN /\ f.result.kind = "array"
         /\ {f.result.value[i] : i \in 1..Len(f.result.value)} = wanted
         /\ Len(f.result.value) = Cardinality(wanted)

C12_Witness ==
  \E f \in Done("queryPrimaryIndex") :
    /\ f.args.options = Undefined
    /\ f.args.primaryKey = "p1"
    /\ f.args.sortKeyBeginsWith = Str(<<"x", "y">>)
    /\ Cardinality({r \in store : r.ppk = "p1" /\ IsDeletedOf(r) = Undefined}) = 2
    /\ \E r \in store : r.ppk = "p2"
    /\ Len(f.result.value) = 1
    /\ f.result.value[1].psk = <<"x", "y">>

\* C13: a client built by new DynamoDB({table, region}) reports getTable equal
\* to table and getRegion equal to region, or '' when no region is given; one
\* built by fromEnvironment() reports DYNAMODB_TABLE and DYNAMODB_REGION, each
\* '' when the variable is unset.
C13_GettersReportTheConfiguration ==
  /\ built.by = "constructor" =>
       /\ getTable = built.given.table
       /\ getRegion = (IF "region" \in DOMAIN built.given THEN built.given.region ELSE "")
  /\ built.by = "fromEnvironment" =>
       /\ getTable = (IF "DYNAMODB_TABLE" \in DOMAIN built.given
                      THEN built.given.DYNAMODB_TABLE ELSE "")
       /\ getRegion = (IF "DYNAMODB_REGION" \in DOMAIN built.given
                       THEN built.given.DYNAMODB_REGION ELSE "")

C13_Witness ==
  /\ built.by = "fromEnvironment"
  /\ built.given = [DYNAMODB_TABLE |-> "t3"]
  /\ getTable = "t3"
  /\ getRegion = ""
  /\ \E f \in Frames : f.pc = "done"

\* C14: every call of putItem, getItem, deleteItem, queryPrimaryIndex or
\* querySecondaryIndex sends exactly one command and never retries: when the
\* send fails the call fails with the same error, sends no further command and
\* returns no result.
C14_OneSendNoRetry ==
  /\ [](\A f \in Frames :
          /\ f.pc # "idle" => Len(f.sent) = 1
          /\ f.pc = "failed" => (f.error = f.thrown /\ f.error # NoError /\ f.result = Pending)
          /\ f.pc = "done" => f.error = NoError)
  /\ [][\A c \in DOMAIN calls :
          /\ calls[c].pc # "idle" /\ calls'[c].pc # "idle" => calls'[c].sent = calls[c].sent
          /\ calls[c].pc = "failed" => calls'[c].pc \in {"failed", "idle"}]_vars

C14_Witness ==
  \E f \in Frames :
    /\ f.op = "queryPrimaryIndex"
    /\ f.pc = "failed"
    /\ f.error = "ProvisionedThroughputExceededException"
    /\ Len(f.sent) = 1

\* C15: queryPrimaryIndex and querySecondaryIndex always resolve to an array of
\* records (possibly empty), as Promise<RecordItem[]> declares, also when the
\* QueryCommand output carries no Items.
C15_QueryResolvesToAnArray ==
  \A f \in Done("queryPrimaryIndex") \cup Done("querySecondaryIndex") :
    f.result.kind = "array"

\* the same for the outputs that carry Items
C15_ArrayWhenItemsPresent ==
  \A f \in Done("queryPrimaryIndex") \cup Done("querySecondaryIndex") :
    "Items" \in DOMAIN f.output => f.result.kind = "array"

\* C16: over the table and any sequence of putItem, deleteItem and getItem
\* calls on a key, getItem returns the most recently put item of the key
\* exactly when there is one, no deleteItem of the key came after it and its
\* isDeleted is not true; otherwise undefined.  A record put with isDeleted
\* true stays stored, and a later putItem of the key with isDeleted not true
\* is returned again.
C16_GetItemFollowsTheLastWrite ==
  /\ \A f \in Done("getItem") :
       LET w == lastWrite[[ppk |-> f.args.primaryKey, psk |-> f.args.sortKey]]
           visible == /\ w.kind = "put"
                      /\ ~("isDeleted" \in DOMAIN w.item /\ w.item.isDeleted = Bool(TRUE))
       IN /\ visible => (f.result.kind = "object" /\ f.result.value = w.item)
          /\ ~visible => f.result.kind = "undefined"
  /\ \A k \in TableKeys :
       /\ lastWrite[k].kind = "put" => lastWrite[k].item \in store
       /\ lastWrite[k].kind # "put" => \A r \in store : r.ppk # k.ppk \/ r.psk # k.psk

C16_Witness ==
  \E f \in Done("getItem") :
    LET k == [ppk |-> f.args.primaryKey, psk |-> f.args.sortKey] IN
      /\ lastWrite[k].kind = "put"
      /\ IsDeletedOf(lastWrite[k].item) = Bool(TRUE)
      /\ lastWrite[k].item \in store
      /\ f.result = Undefined
      /\ \E k2 \in TableKeys : lastWrite[k2].kind = "delete"

\* the letters of attribute and placeholder names
Letters ==
  {"a","b","c","d","e","f","g","h","i","j","k","l","m",
   "n","o","p","q","r","s","t","u","v","w","x","y","z"}

\* the last position of the run of letters that follows position i
RECURSIVE RunEnd(_, _)
RunEnd(expr, i) ==
  IF i < Len(expr) /\ expr[i + 1] \in Letters THEN RunEnd(expr, i + 1) ELSE i

\* the ':' placeholders that occur in an expression, from position i on
RECURSIVE PlaceholdersFrom(_, _)
PlaceholdersFrom(expr, i) ==
  IF i > Len(expr) THEN {}
  ELSE IF expr[i] = ":"
       THEN {SubSeq(expr, i, RunEnd(expr, i))} \cup PlaceholdersFrom(expr, RunEnd(expr, i) + 1)
       ELSE PlaceholdersFrom(expr, i + 1)

Contains(expr, part) ==
  \E i \in 1..Len(expr) :
    i + Len(part) - 1 <= Len(expr) /\ SubSeq(expr, i, i + Len(part) - 1) = part

BeginsWithClause == <<"b","e","g","i","n","s","_","w","i","t","h","(">>

\* the characters of a key of ExpressionAttributeValues
KeyChars(key) ==
  CASE key = ":ppk" -> <<":","p","p","k">>
    [] key = ":psk" -> <<":","p","s","k">>
    [] key = ":spk" -> <<":","s","p","k">>
    [] key = ":ssk" -> <<":","s","s","k">>
    [] OTHER -> <<>>

\* C17: in every QueryCommand of queryPrimaryIndex or querySecondaryIndex the
\* keys of ExpressionAttributeValues are the ':' placeholders that occur in
\* KeyConditionExpression: the sort-key placeholder is a key exactly when the
\* begins_with clause is there, the partition-key placeholder always.
C17_ValuesMatchPlaceholders ==
  \A f \in Called("queryPrimaryIndex") \cup Called("querySecondaryIndex") :
    LET in == f.sent[1].input
        keys == DOMAIN in.ExpressionAttributeValues
        pk == IF f.op = "queryPrimaryIndex" THEN ":ppk" ELSE ":spk"
        sk == IF f.op = "queryPrimaryIndex" THEN ":psk" ELSE ":ssk"
    IN /\ {KeyChars(k) : k \in keys} = PlaceholdersFrom(in.KeyConditionExpression, 1)
       /\ keys \subseteq {pk, sk}
       /\ pk \in keys
       /\ (sk \in keys) <=> Contains(in.KeyConditionExpression, BeginsWithClause)

C17_Witness ==
  \E f \in Called("querySecondaryIndex") :
    /\ f.args.sortKeyBeginsWith = Str(<<"x">>)
    /\ PlaceholdersFrom(f.sent[1].input.KeyConditionExpression, 1)
         = {<<":","s","p","k">>, <<":","s","s","k">>}
    /\ DOMAIN f.sent[1].input.ExpressionAttributeValues = {":spk", ":ssk"}

\* the table the client was built with
TableGiven ==
  IF built.by = "constructor" THEN built.given.table
  ELSE IF "DYNAMODB_TABLE" \in DOMAIN built.given THEN built.given.DYNAMODB_TABLE
  ELSE ""

\* C18: no operation changes the client's configuration: after any sequence of
\* calls, successful or failed, getTable, getRegion and getDocumentClient return
\* what the construction set, and every command sent carries the table given at
\* construction as TableName.
C18_ConfigurationIsFixed ==
  /\ getTable = built.as.table
  /\ getRegion = built.as.region
  /\ getDocumentClient = built.as.documentClient
  /\ \A f \in Frames : f.pc # "idle" =>
       \A i \in 1..Len(f.sent) : f.sent[i].input.TableName = TableGiven

C18_Witness ==
  /\ built.by = "constructor"
  /\ getTable = "t2"
  /\ \E f \in Frames : f.pc = "failed" /\ f.op = "deleteItem"
                       /\ f.sent[1].input.TableName = "t2"

\* C19: against a table that honours Limit, a query with options.limit = n
\* returns at most n records: the limit is sent, the soft-delete filter runs on
\* the page that comes back, so it only shrinks the result, and no second
\* request refills it.
C19_AtMostLimitRecords ==
  \A f \in Done("queryPrimaryIndex") \cup Done("querySecondaryIndex") :
    LET o == f.args.options
        limited == /\ o.kind = "object"
                   /\ "limit" \in DOMAIN o.value
                   /\ o.value.limit.kind = "number"
    IN limited =>
         /\ Len(f.sent) = 1
         /\ "Limit" \in DOMAIN f.sent[1].input
         /\ f.sent[1].input.Limit = o.value.limit.value
         /\ Len(f.output.Items) <= o.value.limit.value
         /\ f.result.kind = "array"
         /\ Len(f.result.value) <= Len(f.output.Items)
         /\ Len(f.result.value) <= o.value.limit.value

C19_Witness ==
  \E f \in Done("queryPrimaryIndex") :
    /\ f.args.options = Obj([limit |-> Num(1)])
    /\ f.args.sortKeyBeginsWith = Undefined
    /\ Cardinality({r \in store : r.ppk = f.args.primaryKey}) = 2
    /\ \E r \in store : r.ppk = f.args.primaryKey /\ IsDeletedOf(r) = Undefined
    /\ Len(f.output.Items) = 1
    /\ f.result = Arr(<<>>)

\* the command a method builds from a call's own arguments and the table
CommandOfCall(f, table) ==
  CASE f.op = "putItem" -> putItemCommand(table, f.args.item)
    [] f.op = "getItem" -> getItemCommand(table, f.args.primaryKey, f.args.sortKey)
    [] f.op = "deleteItem" -> deleteItemCommand(table, f.args.primaryKey, f.args.sortKey)
    [] f.op = "queryPrimaryIndex" ->
         queryPrimaryIndexCommand(table, f.args.primaryKey, f.args.sortKeyBeginsWith,
                                  f.args.options)
    [] f.op = "querySecondaryIndex" ->
         querySecondaryIndexCommand(table, f.args.secondaryKey, f.args.sortKeyBeginsWith,
                                    f.args.options)

\* C20: with several calls in flight on one client, in any interleaving of
\* their sends and responses, each call's command is built from its own
\* arguments and the fixed table, each call's result from the response to its
\* own command, each rejection from its own send's error; a step of one call
\* leaves the other calls and the client as they were.
C20_CallsAreIsolated ==
  /\ [](\A c \in DOMAIN calls :
          LET f == calls[c] IN
            /\ f.pc # "idle" => f.sent = <<CommandOfCall(f, built.as.table)>>
            /\ f.pc = "done" => f.result = ResultOf(f.op, f.output)
            /\ f.pc = "failed" => f.error = f.thrown)
  /\ [][/\ client' = client
        /\ \A c, d \in DOMAIN calls :
             c # d => (calls'[c] = calls[c] \/ calls'[d] = calls[d])]_vars

C20_Witness ==
  /\ Cardinality(DOMAIN calls) = 2
  /\ \A c \in DOMAIN calls : calls[c].pc = "done" /\ calls[c].op = "getItem"
  /\ calls[1].args # calls[2].args
  /\ calls[1].sent # calls[2].sent
  /\ calls[1].result = Undefined
  /\ calls[1].output # EmptyObject
  /\ calls[2].result.kind = "object"

====
